---- MODULE Spec2Model ----
(***************************************************************************)
(* Hydra render farm: the job / task / node life cycle.                    *)
(*                                                                         *)
(* The database (tables render_nodes, jobs, tasks) is the shared state.    *)
(* Every worker (python/hydra_farm/render_node.py) runs a render loop, a   *)
(* pulse loop and a TCP handler; a controller (python/hydra_farm/          *)
(* farm_view.py) calls the methods of python/hydra_farm/database/          *)
(* hydra_db.py on row handles it fetched earlier.                          *)
(*                                                                         *)
(* Granularity: one step per database transaction of a worker (a plain     *)
(* SELECT takes no row lock in MySQL, and the writes of a transaction      *)
(* become visible together at its COMMIT), one step per controller method. *)
(* A row is a function from column names to values; the primary key is the *)
(* index of the table function.  NULL is 0 for task_id, "" for host, {}    *)
(* for exit_code ({c} is the code c), FALSE for a time stamp (TRUE: set).  *)
(***************************************************************************)
EXTENDS Integers, Sequences, FiniteSets, TLC

\* ------------------------------------------------------------------ statuses
STARTED == "S"
READY == "R"
PAUSED == "U"
FINISHED == "F"
KILLED == "K"
ERROR == "E"
CRASHED == "C"
TIMEOUT == "T"
IDLE == "I"
OFFLINE == "O"
PENDING == "P"
GETOFF == "G"

STUCK_STATUS == {STARTED, PENDING}
OFFLINE_STATUS == {OFFLINE, PENDING, STARTED}

\* exit codes the program writes
ExitKilled == -1
ExitNotStarted == -1234
ExitUnstuck == 999
ExitMarkedDead == 1
\* return code of a child ended by SIGTERM / a child that failed by itself
ReturnTerminated == -15
ReturnFailure == 1

\* ------------------------------------------------------------------ bounds
MaxAttempts == 2
MaxFailures == 1
MaxCrashes == 1
MaxKills == 1
MaxPulse == 1
MaxCtlOps == 1
MaxCalls == 1
MaxLocks == 3
MaxTargetCalls == 2
MaxNodeOps == 2

\* ------------------------------------------------------------------ the farm
Hosts == {"nodeA", "nodeB"}
TaskIds == {1, 2}
JobIds == {1}

\* Columns of the node rows that no modelled operation writes.
NodeCfg ==
    [h \in Hosts |-> [min_priority |-> 10, capabilities |-> <<"Maya">>]]

VARIABLES
    render_nodes,   \* table render_nodes: host -> row
    jobs,           \* table jobs: id -> row
    tasks,          \* table tasks: id -> row
    pc,             \* worker: where its render thread (or start-up) stands
    this_node,      \* worker: RenderTCPServer.this_node, a node handle
    job_h,          \* worker: the job handle of the running claim
    task_h,         \* worker: the task handle of the running claim
    task_list,      \* worker: update_job_status' list of task statuses
    child_process,  \* worker: "none" | "running" | "exited"
    returncode,     \* worker: child_process.returncode
    child_killed,   \* worker: RenderTCPServer.child_killed
    failed_node,    \* worker: launch_render_task's failed_node ("" is None)
    view,           \* controller: the handles its trees hold
    clock,          \* per host: heartbeats written so far
    count,          \* how often each bounded event happened
    failures,       \* per job: hosts whose failure was reported since reset
    connection,     \* per host: the last request its TCP server read, and
                    \* what it wrote back
    all_threads,    \* per host: HydraThreadManager.all_threads of the worker
    locks,          \* per host: the lock file and the InstanceLock objects
    kill_tasks,     \* per job: the task handles of a job.kill() in progress
    manager         \* a process with HydraThreads of its own: the threads its
                    \* HydraThreadManager tracks, and whether run_forever returned

dbvars == <<render_nodes, jobs, tasks>>
wvars == <<pc, this_node, job_h, task_h, task_list, child_process, returncode,
           child_killed, failed_node>>
uvars == <<connection, all_threads, locks, kill_tasks, manager>>
vars == <<render_nodes, jobs, tasks, pc, this_node, job_h, task_h, task_list,
          child_process, returncode, child_killed, failed_node, view, clock,
          count, failures, connection, all_threads, locks,
          kill_tasks, manager>>

\* No request read yet, no thread tracked, no lock file.
NoConnection == [request |-> <<>>, wfile |-> <<>>]

NoLocks == [file |-> 0, owner |-> <<>>, made |-> <<>>]

\* ------------------------------------------------------------------ handles
\* A handle: v, the columns it holds; d, its dirty set (_dirty).
NoHandle == [v |-> <<>>, d |-> {}]

\* AbstractHydraTable.__setattr__: a column assigned is a column dirty.
setattr(h, key, value) ==
    [v |-> (key :> value) @@ h.v, d |-> h.d \cup {key}]

\* AbstractHydraTable.do_refresh: every column of data is set with setattr.
do_refresh(h, data) ==
    [v |-> data @@ h.v, d |-> h.d \cup DOMAIN data]

\* AbstractHydraTable.__init__: an empty dirty set, then do_refresh.
new_handle(data) == do_refresh(NoHandle, data)

\* AbstractHydraTable.fetch of one row: SELECT columns (all of them when none
\* is named), then cls(r).
fetch(row, columns) ==
    LET sel == IF columns = {} THEN DOMAIN row ELSE columns
    IN  new_handle([c \in sel |-> row[c]])

\* AbstractHydraTable.refresh: the column set it selects is built from an
\* empty tuple plus the primary key.
refresh(h, row, primary_key) ==
    LET columns == {} \cup {primary_key}
    IN  do_refresh(h, [c \in columns |-> row[c]])

\* AbstractHydraTable.update: the row after UPDATE ... SET <dirty columns>.
update_row(h, row) ==
    [c \in DOMAIN row |-> IF c \in h.d THEN h.v[c] ELSE row[c]]

\* AbstractHydraTable.update: an UPDATE is issued unless _dirty is empty.
update_issues(h) == h.d # {}

\* An update that leaves the dirty set as it was.
update_handle_keeps_dirty(h) == h

\* AbstractHydraTable.update: the handle afterwards (_dirty.clear()).
update_handle(h) == [h EXCEPT !.d = {}]

\* AbstractHydraTable.update_attr: one column written, the handle clean for it.
update_attr_row(row, attr, value) == [row EXCEPT ![attr] = value]

update_attr_handle(h, attr, value) ==
    [v |-> (attr :> value) @@ h.v, d |-> h.d \ {attr}]

\* ------------------------------------------------------------------ the claim query
\* SQL: failed_nodes NOT LIKE '%host%', on the space separated host list.
failed_nodes_like(failed_nodes, host) ==
    \E i \in 1..Len(failed_nodes) : failed_nodes[i] = host

\* SQL: capabilities LIKE '%a%b%': the tokens of the pattern occur in order.
RECURSIVE like(_, _)
like(capabilities, requirements) ==
    IF requirements = <<>> THEN TRUE
    ELSE IF capabilities = <<>> THEN FALSE
    ELSE IF Head(capabilities) = Head(requirements)
         THEN like(Tail(capabilities), Tail(requirements))
         ELSE like(Tail(capabilities), requirements)

\* The WHERE clause of find_render_task's SELECT for task t and host n, in
\* the tables T (tasks) and J (jobs).
where_clause(t, n, T, J) ==
    LET j == T[t].job_id
    IN  /\ T[t].status = READY
        /\ J[j].archived = 0
        /\ T[t].priority > NodeCfg[n].min_priority
        /\ J[j].max_attempts > J[j].attempts
        /\ ~failed_nodes_like(J[j].failed_nodes, n)
        /\ like(NodeCfg[n].capabilities, J[j].requirements)

\* An ORDER BY T.id ASC LIMIT 1.
order_by_id_limit_1(rows, T) == {t \in rows : \A u \in rows : t <= u}

\* ORDER BY T.priority DESC, T.id ASC LIMIT 1: the rows selected (none or one).
order_by_limit_1(rows, T) ==
    {t \in rows : \A u \in rows :
        \/ T[t].priority > T[u].priority
        \/ T[t].priority = T[u].priority /\ t <= u}

select_task(n, T, J) ==
    order_by_limit_1({t \in TaskIds : where_clause(t, n, T, J)}, T)

\* ------------------------------------------------------------------ methods
\* A method of hydra_db.py maps its handle h and the tables D (a record of
\* the three tables: n, j, t) to the handle and the tables afterwards, and
\* its return value ret.
Tables == [n |-> render_nodes, j |-> jobs, t |-> tasks]

result(h, D, ret) == [h |-> h, db |-> D, ret |-> ret]

\* update() of a node / job / task handle in the tables D.
update_node(h, D) ==
    [D EXCEPT !.n[h.v.host] = update_row(h, D.n[h.v.host])]

update_job(h, D) ==
    [D EXCEPT !.j[h.v.id] = update_row(h, D.j[h.v.id])]

update_task(h, D) ==
    [D EXCEPT !.t[h.v.id] = update_row(h, D.t[h.v.id])]

\* HydraRenderNode.online
online(h, D) ==
    LET set(s) == result(update_attr_handle(h, "status", s),
                         [D EXCEPT !.n[h.v.host] =
                             update_attr_row(D.n[h.v.host], "status", s)],
                         TRUE)
    IN  IF h.v.status = OFFLINE THEN set(IDLE)
        ELSE IF h.v.status = PENDING THEN set(STARTED)
        ELSE result(h, D, TRUE)

\* HydraRenderNode.offline
offline(h, D) ==
    LET new_status == IF h.v.status = STARTED THEN PENDING ELSE OFFLINE
    IN  result(update_attr_handle(h, "status", new_status),
               [D EXCEPT !.n[h.v.host] =
                   update_attr_row(D.n[h.v.host], "status", new_status)],
               TRUE)

\* A HydraStatus member as a request argument, and the str a caller could
\* pass instead: json.dumps raises TypeError on an Enum member.
HydraStatus(s) == [enum |-> TRUE, value |-> s]

json_dumps_raises(arg) == arg.enum

\* HydraRequest.from_args: the request send_kill_question builds.
kill_request(new_status) ==
    [cmd |-> "kill_current_task", args |-> <<new_status>>, kwargs |-> <<>>]

\* _HydraDataStream.as_json_bytes of a request: json.dumps raises on an Enum
\* member; a str is written as a JSON string, the args tuple as an array.
as_json_bytes(x) ==
    IF \E i \in DOMAIN x.args : json_dumps_raises(x.args[i])
    THEN [raised |-> TRUE, json |-> <<>>]
    ELSE [raised |-> FALSE,
          json |-> [cmd |-> x.cmd,
                    args |-> [i \in DOMAIN x.args |-> x.args[i].value],
                    kwargs |-> x.kwargs]]

\* HydraRequest.from_bytes: json.loads gives every JSON string as a str.
from_bytes(json) ==
    [cmd |-> json.cmd,
     args |-> [i \in DOMAIN json.args |-> [enum |-> FALSE,
                                           value |-> json.args[i]]],
     kwargs |-> json.kwargs]

\* _HydraTCPHandler.handle: the response written for a request.  The handler
\* is looked up on the socket server (getattr(self.server, 'handler', None)),
\* where nothing sets it: RenderTCPServer.__init__ sets it on the server
\* thread.  So handle_connection is not called; echo answers its first
\* argument, and an echo without one leaves handle with an IndexError before
\* anything is written.
handle(request) ==
    IF request.cmd = "echo"
    THEN IF Len(request.args) = 0
         THEN [written |-> FALSE, msg |-> "", err |-> TRUE]
         ELSE [written |-> TRUE, msg |-> request.args[1].value,
               err |-> FALSE]
    ELSE [written |-> TRUE, msg |-> "_HydraSocketServer has no handler!",
          err |-> TRUE]

\* connections.send_request for the request kill_current_task(new_status).
\* net: "timeout" (create_connection timed out) or "up" (connected).  With
\* the connection up, as_json_bytes raises inside the try block before a
\* byte is sent when the argument is an Enum member; a request that is sent
\* is answered by handle.
send_request(net, new_status) ==
    IF net = "timeout" THEN [msg |-> "TimeoutError", err |-> TRUE]
    ELSE IF as_json_bytes(kill_request(new_status)).raised
         THEN [msg |-> "Unhandled Exception", err |-> TRUE]
         ELSE LET response == handle(from_bytes(
                      as_json_bytes(kill_request(new_status)).json))
              IN  [msg |-> response.msg, err |-> response.err]

\* connections.send_request: create_connection is guarded by
\* "except TimeoutError" alone, a ConnectionRefusedError leaves the function.
send_request_raises(net) == net = "refused"

\* HydraRenderTask.send_kill_question
send_kill_question(net, new_status) == send_request(net, new_status)

\* A kill whose local finalization updates the node row in every case.
task_kill_updates_node(h, D, new_status, tcp_kill, net) ==
    IF h.v.status # STARTED THEN result(h, D, TRUE)
    ELSE
    LET node == fetch(D.n[h.v.host], {"host", "status", "task_id"})
        h1 == setattr(setattr(setattr(h, "status", new_status.value),
                              "exit_code", {ExitMarkedDead}),
                      "end_time", TRUE)
        n1 == setattr(setattr(node, "status",
                              IF node.v.status = STARTED THEN IDLE
                              ELSE OFFLINE),
                      "task_id", 0)
    IN  IF tcp_kill /\ node.v.task_id = h.v.id
        THEN result(h, D, send_kill_question(net, new_status).err)
        ELSE result(update_handle(h1), update_node(n1, update_task(h1, D)),
                    TRUE)

\* HydraRenderTask.kill.  The response object send_kill_question returns is
\* always true as a condition, so with tcp_kill and a matching node the
\* method returns the response's err and writes nothing.
task_kill(h, D, new_status, tcp_kill, net) ==
    IF h.v.status # STARTED THEN result(h, D, TRUE)
    ELSE
    LET node == fetch(D.n[h.v.host], {"host", "status", "task_id"})
        asks == tcp_kill /\ node.v.task_id = h.v.id
        update_the_node == ~(tcp_kill /\ node.v.task_id # h.v.id)
        h1 == setattr(setattr(setattr(h, "status", new_status.value),
                              "exit_code", {ExitMarkedDead}),
                      "end_time", TRUE)
        D1 == update_task(h1, D)
        n1 == setattr(setattr(node, "status",
                              IF node.v.status = STARTED THEN IDLE
                              ELSE OFFLINE),
                      "task_id", 0)
    IN  IF asks
        THEN result(h, D, send_kill_question(net, new_status).err)
        ELSE result(update_handle(h1),
                    IF update_the_node THEN update_node(n1, D1) ELSE D1,
                    TRUE)

\* HydraRenderNode.get_task
get_task(h, D, columns) == fetch(D.t[h.v.task_id], columns)

\* HydraRenderNode.get_off stops with an exception after its first write:
\* an AttributeError when the node is STARTED with no task_id (get_task
\* returned None), a ConnectionRefusedError out of send_request when no
\* worker listens on the host that is asked.
get_off_raises(h, D, net) ==
    /\ h.v.status = STARTED
    /\ \/ h.v.task_id = 0
       \/ LET task == D.t[h.v.task_id]
          IN  /\ task.status = STARTED
              /\ D.n[task.host].task_id = task.id
              /\ net[task.host] = "refused"

\* A get_off that leaves the node PENDING when the kill marked the task dead
\* without asking a worker.
get_off_stays_pending(h, D, net) ==
    IF h.v.status # STARTED THEN result(h, D, TRUE)
    ELSE
    LET h1 == update_attr_handle(h, "status", PENDING)
        D1 == [D EXCEPT !.n[h.v.host] =
                  update_attr_row(D.n[h.v.host], "status", PENDING)]
        task == get_task(h1, D1,
                         {"id", "status", "exit_code", "end_time", "host"})
        k == task_kill(task, D1, HydraStatus(KILLED), TRUE, net[task.v.host])
        h2 == setattr(setattr(h1, "status", OFFLINE), "task_id", 0)
    IN  IF get_off_raises(h, D, net) THEN result(h1, D1, FALSE)
        ELSE IF k.ret /\ k.db.t = D1.t
        THEN result(update_handle(h2), update_node(h2, k.db), k.ret)
        ELSE result(h1, k.db, k.ret)

\* HydraRenderNode.get_off; net: the connection each host gives.
get_off(h, D, net) ==
    IF h.v.status # STARTED THEN result(h, D, TRUE)
    ELSE
    LET h1 == update_attr_handle(h, "status", PENDING)
        D1 == [D EXCEPT !.n[h.v.host] =
                  update_attr_row(D.n[h.v.host], "status", PENDING)]
        task == get_task(h1, D1,
                         {"id", "status", "exit_code", "end_time", "host"})
        k == task_kill(task, D1, HydraStatus(KILLED), TRUE, net[task.v.host])
        h2 == setattr(setattr(h1, "status", OFFLINE), "task_id", 0)
    IN  IF get_off_raises(h, D, net) THEN result(h1, D1, FALSE)
        ELSE IF k.ret
        THEN result(update_handle(h2), update_node(h2, k.db), k.ret)
        ELSE result(h1, k.db, k.ret)

\* HydraRenderJob.get_tasks: the ids of the job's tasks.
get_tasks(job_id, D) == {t \in TaskIds : D.t[t].job_id = job_id}

\* The handles get_tasks(columns) returns, by task id.
task_handles(job_id, D, columns) ==
    [t \in get_tasks(job_id, D) |-> fetch(D.t[t], columns)]

\* Every handle of hs that satisfies test gets status s and is updated.
update_tasks_where(hs, D, test(_), change(_)) ==
    [D EXCEPT !.t = [t \in TaskIds |->
        IF t \in DOMAIN hs /\ test(hs[t])
        THEN update_row(change(hs[t]), D.t[t])
        ELSE D.t[t]]]

\* HydraRenderJob.start
job_start(h, D) ==
    IF h.v.status \notin {PAUSED, KILLED} THEN result(h, D, FALSE)
    ELSE
    LET h1 == setattr(h, "status", READY)
        task_hs == task_handles(h.v.id, D, {"id", "status"})
        test(th) == th.v.status \in {PAUSED, KILLED}
        change(th) == setattr(th, "status", READY)
    IN  result(update_handle(h1),
               update_tasks_where(task_hs, update_job(h1, D), test, change),
               TRUE)

\* HydraRenderJob.pause
job_pause(h, D) ==
    IF h.v.status \notin {READY, KILLED} THEN result(h, D, FALSE)
    ELSE
    LET h1 == setattr(h, "status", PAUSED)
        task_hs == task_handles(h.v.id, D, {"id", "status"})
        test(th) == th.v.status \in {READY, KILLED}
        change(th) == setattr(th, "status", PAUSED)
    IN  result(update_handle(h1),
               update_tasks_where(task_hs, update_job(h1, D), test, change),
               TRUE)

\* HydraRenderJob.reset
job_reset(h, D) ==
    LET task_hs == task_handles(h.v.id, D,
            {"id", "status", "host", "start_time", "end_time", "exit_code"})
        h1 == setattr(setattr(setattr(h, "status", PAUSED), "attempts", 0),
                      "failed_nodes", <<>>)
        test(th) == TRUE
        change(th) ==
            setattr(setattr(setattr(setattr(setattr(th,
                "status", PAUSED), "host", ""), "start_time", FALSE),
                "end_time", FALSE), "exit_code", {})
    IN  result(update_handle(h1),
               update_tasks_where(task_hs, update_job(h1, D), test, change),
               TRUE)

\* HydraRenderJob.reset_failed_nodes
reset_failed_nodes(h, D) ==
    LET h1 == setattr(h, "failed_nodes", <<>>)
    IN  result(update_handle(h1), update_job(h1, D), TRUE)

\* The task.kill calls of HydraRenderJob.kill, in the order of the task ids
\* from..to: the task handles and the tables afterwards, and whether a call
\* raised (create_connection refused: no worker listens on the host).
RECURSIVE kill_each(_, _, _, _, _, _)
kill_each(hs, D, from, new_status, tcp_kill, net) ==
    IF from \notin DOMAIN hs
    THEN IF \E t \in DOMAIN hs : t > from
         THEN kill_each(hs, D, from + 1, new_status, tcp_kill, net)
         ELSE [hs |-> hs, db |-> D, raised |-> FALSE]
    ELSE
    LET th == hs[from]
        asks == /\ th.v.status = STARTED
                /\ tcp_kill
                /\ D.n[th.v.host].task_id = th.v.id
        k == task_kill(th, D, new_status, tcp_kill, net[th.v.host])
    IN  IF asks /\ net[th.v.host] = "refused"
        THEN [hs |-> hs, db |-> D, raised |-> TRUE]
        ELSE kill_each([hs EXCEPT ![from] = k.h], k.db, from + 1,
                       new_status, tcp_kill, net)

\* HydraRenderJob.kill after its task.kill calls: the job's status is
\* written, then the status of every task whose handle is not FINISHED.
kill_updates(h, hs, D, new_status) ==
    LET D1 == [D EXCEPT !.j[h.v.id] =
                  update_attr_row(D.j[h.v.id], "status", new_status.value)]
    IN  [D1 EXCEPT !.t = [t \in TaskIds |->
            IF t \in DOMAIN hs /\ hs[t].v.status # FINISHED
            THEN update_attr_row(D1.t[t], "status", new_status.value)
            ELSE D1.t[t]]]

\* HydraRenderJob.kill
job_kill(h, D, new_status, tcp_kill, net) ==
    LET task_hs == task_handles(h.v.id, D,
                       {"id", "status", "exit_code", "end_time", "host"})
        ks == kill_each(task_hs, D, 1, new_status, tcp_kill, net)
        h1 == update_attr_handle(h, "status", new_status.value)
        D2 == kill_updates(h, ks.hs, ks.db, new_status)
    IN  IF ks.raised THEN result(h, ks.db, FALSE) ELSE result(h1, D2, TRUE)

\* ------------------------------------------------------------------ initial state
fetch_view(D) ==
    [jobs |-> [j \in JobIds |-> fetch(D.j[j], {})],
     nodes |-> [h \in Hosts |-> fetch(D.n[h], {})]]

\* The submitter writes the job and its tasks READY or, on request, PAUSED,
\* with the max_attempts of its spin box.
submitted(max_attempts, priority) ==
    /\ render_nodes = [h \in Hosts |->
          [host |-> h, status |-> IDLE, task_id |-> 0, pulse |-> 0]]
    /\ \E status \in {READY, PAUSED} :
        /\ jobs = [j \in JobIds |->
              [id |-> j, status |-> status, attempts |-> 0,
               failed_nodes |-> <<>>, task_done |-> 0,
               max_attempts |-> max_attempts, archived |-> 0,
               requirements |-> <<"Maya">>]]
        /\ tasks = [t \in TaskIds |->
              [id |-> t, job_id |-> 1, status |-> status,
               priority |-> priority[t],
               host |-> "", exit_code |-> {}, start_time |-> FALSE,
               end_time |-> FALSE]]
    /\ pc = [n \in Hosts |-> "boot"]
    /\ this_node = [n \in Hosts |-> NoHandle]
    /\ job_h = [n \in Hosts |-> NoHandle]
    /\ task_h = [n \in Hosts |-> NoHandle]
    /\ task_list = [n \in Hosts |-> <<>>]
    /\ child_process = [n \in Hosts |-> "none"]
    /\ returncode = [n \in Hosts |-> 0]
    /\ child_killed = [n \in Hosts |-> 0]
    /\ failed_node = [n \in Hosts |-> ""]
    /\ view = fetch_view(Tables)
    /\ clock = [n \in Hosts |-> 0]
    /\ count = [crashes |-> 0, kills |-> 0, ctl |-> 0, calls |-> 0, node |-> 0,
                failed |-> [n \in Hosts |-> 0]]
    /\ failures = [j \in JobIds |-> [n |-> 0, hosts |-> {}]]
    /\ connection = [n \in Hosts |-> NoConnection]
    /\ all_threads = [n \in Hosts |-> <<>>]
    /\ locks = [n \in Hosts |-> NoLocks]
    /\ kill_tasks = [j \in JobIds |-> <<>>]
    /\ manager = [all_threads |-> <<>>, returned |-> FALSE]

\* The priority of the submitter's spin box, and the priority FarmView gives
\* the first tasks of a job when it starts them as a test.
Priorities == {50, (50 * 125) \div 100}

submit(max_attempts) == submitted(max_attempts, [t \in TaskIds |-> 50])

Init == submit(MaxAttempts)

\* The job is on the farm with some of its tasks raised in priority.
InitPriorities ==
    \E priority \in [TaskIds -> Priorities] : submitted(MaxAttempts, priority)

\* The job is submitted with a single attempt.
InitSingleAttempt == submit(1)

\* The tables become D.
write(D) ==
    /\ render_nodes' = D.n
    /\ jobs' = D.j
    /\ tasks' = D.t

\* What the render thread holds between two tasks.
forget(n) ==
    /\ job_h' = [job_h EXCEPT ![n] = NoHandle]
    /\ task_h' = [task_h EXCEPT ![n] = NoHandle]
    /\ task_list' = [task_list EXCEPT ![n] = <<>>]
    /\ child_process' = [child_process EXCEPT ![n] = "none"]
    /\ returncode' = [returncode EXCEPT ![n] = 0]
    /\ failed_node' = [failed_node EXCEPT ![n] = ""]

\* ------------------------------------------------------------------ threads
\* HydraThreadManager.add_thread: all_threads.add(thread), thread.start().
\* T: the threads tracked, each with its stop event and its stopped flag.
add_thread(T, thread) ==
    (thread :> [stop_event |-> FALSE, stopped |-> FALSE]) @@ T

\* HydraThreadManager.create_idle_loop: a new HydraThread, added and started.
create_idle_loop(T, thread_name) ==
    (thread_name :> [stop_event |-> FALSE, stopped |-> FALSE]) @@ T

\* HydraThreadManager.shutdown: thread.terminate() for every tracked thread.
HydraThreadManager_shutdown(T) ==
    [thread \in DOMAIN T |-> [T[thread] EXCEPT !.stop_event = TRUE]]

\* The threads a process gives its manager.
ThreadNames == {"test", "Shutdown Thread"}

\* HydraThread.__init__: the thread, not started.  at: where run stands;
\* calls: how often it invoked the target; terminated, early: terminate()
\* was called, and was called before the start delay had elapsed.
HydraThread(delay, interval, single_shot) ==
    [delay |-> delay, interval |-> interval, single_shot |-> single_shot,
     stop_event |-> FALSE, stopped |-> FALSE, at |-> "delay", calls |-> 0,
     terminated |-> FALSE, early |-> FALSE]

\* HydraThreadManager.add_thread: all_threads.add(thread), thread.start().
start(th, delay, interval, single_shot) ==
    /\ th \notin DOMAIN manager.all_threads
    /\ ~manager.returned
    /\ manager' = [manager EXCEPT !.all_threads =
          (th :> HydraThread(delay, interval, single_shot)) @@ @]
    /\ UNCHANGED <<dbvars, wvars, view, clock, count, failures,
                   connection, all_threads, locks, kill_tasks>>

\* A run in which single_shot does not set the stop event.
run_forgets_single_shot(th) ==
    /\ th \in DOMAIN manager.all_threads
    /\ LET t == manager.all_threads[th]
       IN  \E t2 \in
             CASE t.at = "delay" -> {[t EXCEPT !.at = "while"]}
               [] t.at = "while" ->
                    IF t.stop_event THEN {[t EXCEPT !.at = "finally"]}
                    ELSE IF t.calls < MaxTargetCalls
                         THEN {[t EXCEPT !.at = "target", !.calls = @ + 1]}
                         ELSE {}
               [] t.at = "target" ->
                    {[t EXCEPT !.at = IF t.interval THEN "interval"
                                      ELSE "single"],
                     [t EXCEPT !.at = "finally"]}
               [] t.at = "interval" -> {[t EXCEPT !.at = "single"]}
               [] t.at = "single" -> {[t EXCEPT !.at = "while"]}
               [] t.at = "finally" ->
                    {[t EXCEPT !.at = "ended", !.stopped = TRUE]}
               [] OTHER -> {} :
             manager' = [manager EXCEPT !.all_threads[th] = t2]
    /\ UNCHANGED <<dbvars, wvars, view, clock, count, failures,
                   connection, all_threads, locks, kill_tasks>>

\* HydraThread.run, one step of it: the wait for the start delay ends (the
\* delay elapsed or the stop event was set); the while loop tests the stop
\* event and invokes the target; the target returns or raises; the wait for
\* the interval ends; single_shot sets the stop event; finally sets stopped.
run(th) ==
    /\ th \in DOMAIN manager.all_threads
    /\ LET t == manager.all_threads[th]
       IN  \E t2 \in
             CASE t.at = "delay" -> {[t EXCEPT !.at = "while"]}
               [] t.at = "while" ->
                    IF t.stop_event THEN {[t EXCEPT !.at = "finally"]}
                    ELSE IF t.calls < MaxTargetCalls
                         THEN {[t EXCEPT !.at = "target", !.calls = @ + 1]}
                         ELSE {}
               [] t.at = "target" ->
                    {[t EXCEPT !.at = IF t.interval THEN "interval"
                                      ELSE "single"],
                     [t EXCEPT !.at = "finally"]}
               [] t.at = "interval" -> {[t EXCEPT !.at = "single"]}
               [] t.at = "single" ->
                    {[t EXCEPT !.at = "while",
                               !.stop_event = @ \/ t.single_shot]}
               [] t.at = "finally" ->
                    {[t EXCEPT !.at = "ended", !.stopped = TRUE]}
               [] OTHER -> {} :
             manager' = [manager EXCEPT !.all_threads[th] = t2]
    /\ UNCHANGED <<dbvars, wvars, view, clock, count, failures,
                   connection, all_threads, locks, kill_tasks>>

\* HydraThread.terminate: stop_event.set().
terminate(th) ==
    /\ th \in DOMAIN manager.all_threads
    /\ ~manager.all_threads[th].terminated
    /\ manager' = [manager EXCEPT !.all_threads[th] =
          [@ EXCEPT !.stop_event = TRUE, !.terminated = TRUE,
                    !.early = (/\ manager.all_threads[th].delay
                               /\ manager.all_threads[th].at = "delay")]]
    /\ UNCHANGED <<dbvars, wvars, view, clock, count, failures,
                   connection, all_threads, locks, kill_tasks>>

\* HydraThreadManager.run_forever returns: no tracked thread is not stopped.
run_forever ==
    /\ ~manager.returned
    /\ ~\E th \in DOMAIN manager.all_threads :
            ~manager.all_threads[th].stopped
    /\ manager' = [manager EXCEPT !.returned = TRUE]
    /\ UNCHANGED <<dbvars, wvars, view, clock, count, failures,
                   connection, all_threads, locks, kill_tasks>>

\* ------------------------------------------------------------------ the instance lock
\* sys.platform of a host: one host of the farm runs Linux, the others
\* Windows.
sys_platform(n) == IF n = CHOOSE h \in Hosts : TRUE THEN "linux" ELSE "win32"

\* The InstanceLock objects a host may create, and the processes that create
\* them.
LockIds == 1..MaxLocks
Procs == {1, 2}

\* InstanceLock.__init__ of object l in process p on host n.  locks[n].file
\* is the file the lock path names (0: none; else the object that created
\* it), owner the process holding the lockf lock of each file, made the
\* objects created so far.
\* Windows: an existing file is unlinked first, which fails with errno 13
\* while any handle on it is open; then the file is created exclusively.
\* Linux: the file is opened for writing (created when missing) and locked
\* with lockf, which fails only when another process holds the lock.
InstanceLock(n, l, p) ==
    /\ l \notin DOMAIN locks[n].made
    /\ LET L == locks[n]
           open == \E k \in DOMAIN L.made :
                      L.made[k].handle /\ L.made[k].file = L.file
           file == IF L.file = 0 THEN l ELSE L.file
           held == file \in DOMAIN L.owner /\ L.owner[file] # p
       IN  locks' = [locks EXCEPT ![n] =
             IF sys_platform(n) = "win32"
             THEN IF L.file # 0 /\ open
                  THEN [L EXCEPT !.made = (l :> [proc |-> p, locked |-> FALSE,
                                   handle |-> FALSE, file |-> 0]) @@ @]
                  ELSE [L EXCEPT !.file = l,
                                 !.made = (l :> [proc |-> p, locked |-> TRUE,
                                   handle |-> TRUE, file |-> l]) @@ @]
             ELSE [file |-> file,
                   owner |-> IF held THEN L.owner ELSE (file :> p) @@ L.owner,
                   made |-> (l :> [proc |-> p, locked |-> ~held,
                                   handle |-> TRUE, file |-> file])
                            @@ L.made]]
    /\ UNCHANGED <<dbvars, wvars, view, clock, count, failures, kill_tasks, manager,
                   connection,
                   all_threads>>

\* InstanceLock.remove of object l on host n: nothing when it is not locked;
\* else the handle is closed (Windows) or the lock released (Linux), the
\* file the path names is unlinked and locked becomes False.
remove(n, l) ==
    /\ l \in DOMAIN locks[n].made
    /\ locks[n].made[l].locked
    /\ LET L == locks[n]
           o == L.made[l]
       IN  locks' = [locks EXCEPT ![n] =
             [file |-> 0,
              owner |-> IF sys_platform(n) = "win32" THEN L.owner
                        ELSE [f \in DOMAIN L.owner \ {o.file} |-> L.owner[f]],
              made |-> [L.made EXCEPT ![l] =
                          [proc |-> o.proc, locked |-> FALSE,
                           handle |-> sys_platform(n) # "win32",
                           file |-> o.file]]]]
    /\ UNCHANGED <<dbvars, wvars, view, clock, count, failures, kill_tasks, manager,
                   connection,
                   all_threads>>

\* ------------------------------------------------------------------ worker start-up
\* RenderTCPServer.__init__: this_node = get_this_node().
get_this_node(n) ==
    /\ pc[n] = "boot"
    /\ this_node' = [this_node EXCEPT ![n] = fetch(render_nodes[n], {})]
    /\ pc' = [pc EXCEPT ![n] = "unstick"]
    /\ UNCHANGED <<dbvars, job_h, task_h, task_list, child_process, returncode,
                   child_killed, failed_node, view, clock, count, failures, uvars>>

\* HydraRenderNode.unstick_task
unstuck(h, D) ==
    LET h0 == refresh(h, D.n[h.v.host], "host")
        h1 == IF h0.v.status \in STUCK_STATUS
              THEN setattr(h0, "status",
                           IF h0.v.status = STARTED THEN IDLE ELSE OFFLINE)
              ELSE h0
        tid == h1.v.task_id
        task == setattr(setattr(setattr(fetch(D.t[tid], {}),
                    "status", READY), "end_time", TRUE),
                    "exit_code", {ExitUnstuck})
        D1 == IF tid # 0 THEN update_task(task, D) ELSE D
        h2 == setattr(h1, "task_id", 0)
    IN  result(update_handle(h2), update_node(h2, D1), TRUE)

\* RenderTCPServer.__init__: this_node.unstick_task(), then the threads start.
unstick_task(n) ==
    /\ pc[n] = "unstick"
    /\ \E r \in {unstuck(this_node[n], Tables)} :
           /\ write(r.db)
           /\ this_node' = [this_node EXCEPT ![n] = r.h]
    /\ pc' = [pc EXCEPT ![n] = "idle"]
    /\ all_threads' = [all_threads EXCEPT ![n] =
          create_idle_loop(create_idle_loop(add_thread(@,
              "HydraTCPServer"), "Render Loop"), "Pulse Thread")]
    /\ UNCHANGED <<job_h, task_h, task_list, child_process, returncode,
                   child_killed, failed_node, view, clock, count, failures,
                   connection, locks, kill_tasks, manager>>

\* ------------------------------------------------------------------ the render loop
\* RenderTCPServer.render_loop up to the SELECT of find_render_task: a tick
\* that finds the node offline or no task ends here.
render_loop(n) ==
    /\ pc[n] = "idle"
    /\ LET h == fetch(render_nodes[n], {})
           found == select_task(n, tasks, jobs)
       IN  /\ this_node' = [this_node EXCEPT ![n] = h]
           /\ IF h.v.status \in OFFLINE_STATUS \/ found = {}
              THEN /\ UNCHANGED <<pc, task_h>>
              ELSE \E t \in found :
                   /\ task_h' = [task_h EXCEPT ![n] = new_handle(tasks[t])]
                   /\ pc' = [pc EXCEPT ![n] = "get_job"]
    /\ UNCHANGED <<dbvars, job_h, task_list, child_process, returncode,
                   child_killed, failed_node, view, clock, count, failures, uvars>>

\* find_render_task: job = task.get_job(), a fetch on a connection of its own.
get_job(n) ==
    /\ pc[n] = "get_job"
    /\ job_h' = [job_h EXCEPT ![n] = fetch(jobs[task_h[n].v.job_id], {})]
    /\ pc' = [pc EXCEPT ![n] = "commit"]
    /\ UNCHANGED <<dbvars, this_node, task_h, task_list, child_process,
                   returncode, child_killed, failed_node, view, clock, count,
                   failures, uvars>>

\* The three handles find_render_task updates in its transaction.
claim_task(n) ==
    setattr(setattr(setattr(task_h[n], "status", STARTED), "host", n),
            "start_time", TRUE)

claim_job(n) == setattr(job_h[n], "status", STARTED)

claim_node(n) ==
    setattr(setattr(this_node[n], "status", STARTED),
            "task_id", task_h[n].v.id)

\* find_render_task: the three updates and the COMMIT.
find_render_task(n) ==
    /\ pc[n] = "commit"
    /\ \E task \in {claim_task(n)} : \E job \in {claim_job(n)} :
       \E node \in {claim_node(n)} :
       \E D \in {update_node(node, update_job(job,
                      update_task(task, Tables)))} :
           /\ write(D)
           /\ task_h' = [task_h EXCEPT ![n] = update_handle(task)]
           /\ job_h' = [job_h EXCEPT ![n] = update_handle(job)]
           /\ this_node' = [this_node EXCEPT ![n] = update_handle(node)]
    /\ pc' = [pc EXCEPT ![n] = "launch"]
    /\ UNCHANGED <<task_list, child_process, returncode, child_killed,
                   failed_node, view, clock, count, failures, uvars>>

\* launch_render_task: child_killed = 0, child_process = None.
launch_render_task(n) ==
    /\ pc[n] = "launch"
    /\ child_killed' = [child_killed EXCEPT ![n] = 0]
    /\ child_process' = [child_process EXCEPT ![n] = "none"]
    /\ pc' = [pc EXCEPT ![n] = "spawn"]
    /\ UNCHANGED <<dbvars, this_node, job_h, task_h, task_list, returncode,
                   failed_node, view, clock, count, failures, uvars>>

\* launch_render_task: subprocess.Popen starts the child, or raises.
Popen(n) ==
    /\ pc[n] = "spawn"
    /\ \/ /\ child_process' = [child_process EXCEPT ![n] = "running"]
          /\ pc' = [pc EXCEPT ![n] = "wait"]
          /\ UNCHANGED count
       \/ /\ count.failed[n] < MaxFailures
          /\ count' = [count EXCEPT !.failed[n] = @ + 1]
          /\ pc' = [pc EXCEPT ![n] = "task_update"]
          /\ UNCHANGED child_process
    /\ UNCHANGED <<dbvars, this_node, job_h, task_h, task_list, returncode,
                   child_killed, failed_node, view, clock, failures, uvars>>

\* The child exits by itself and communicate() returns.
child_exit(n) ==
    /\ pc[n] = "wait"
    /\ child_process[n] = "running"
    /\ \/ /\ returncode' = [returncode EXCEPT ![n] = 0]
          /\ UNCHANGED count
       \/ /\ count.failed[n] < MaxFailures
          /\ count' = [count EXCEPT !.failed[n] = @ + 1]
          /\ returncode' = [returncode EXCEPT ![n] = ReturnFailure]
    /\ child_process' = [child_process EXCEPT ![n] = "exited"]
    /\ pc' = [pc EXCEPT ![n] = "task_update"]
    /\ UNCHANGED <<dbvars, this_node, job_h, task_h, task_list, child_killed,
                   failed_node, view, clock, failures, uvars>>

\* launch_render_task, "Update Task": the exit code recorded.
exit_code_of(n) ==
    IF child_process[n] # "none"
    THEN IF child_killed[n] = 0 THEN returncode[n] ELSE ExitKilled
    ELSE ExitNotStarted

\* A completion that records the end of the child and forgets the status.
completed_task_keeps_status(n) ==
    setattr(setattr(task_h[n], "end_time", TRUE),
            "exit_code", {exit_code_of(n)})

\* launch_render_task, "Update Task": the task handle before task.update().
completed_task(n) ==
    LET h1 == setattr(setattr(task_h[n], "end_time", TRUE),
                      "exit_code", {exit_code_of(n)})
    IN  setattr(h1, "status",
                IF exit_code_of(n) = 0 THEN FINISHED ELSE READY)

\* launch_render_task, "Update Task" up to task.update().
task_update(n) ==
    /\ pc[n] = "task_update"
    /\ \E task \in {completed_task(n)} :
       \E D \in {update_task(task, Tables)} :
           /\ write(D)
           /\ task_h' = [task_h EXCEPT ![n] = update_handle(task)]
    /\ pc' = [pc EXCEPT ![n] = "job_read"]
    /\ UNCHANGED <<this_node, job_h, task_list, child_process, returncode,
                   child_killed, failed_node, view, clock, count, failures, uvars>>

\* launch_render_task, "Update Job": whether the host is reported as failed.
failed_node_of(n) ==
    IF task_h[n].v.exit_code # {0} /\ child_killed[n] = 0 THEN n ELSE ""

\* launch_render_task, "Update Job", and update_job_status up to its
\* transaction: task_list = self.get_tasks(('status',)).
job_read(n) ==
    /\ pc[n] = "job_read"
    /\ failed_node' = [failed_node EXCEPT ![n] = failed_node_of(n)]
    /\ task_list' = [task_list EXCEPT ![n] =
          [t \in get_tasks(job_h[n].v.id, Tables) |-> tasks[t].status]]
    /\ pc' = [pc EXCEPT ![n] = "job_write"]
    /\ UNCHANGED <<dbvars, this_node, job_h, task_h, child_process, returncode,
                   child_killed, view, clock, count, failures, uvars>>

\* update_job_status: the status the precedence gives.
job_status_of(attempts, max_attempts, statuses) ==
    IF attempts >= max_attempts THEN ERROR
    ELSE IF \A t \in DOMAIN statuses : statuses[t] = FINISHED THEN FINISHED
    ELSE IF \E t \in DOMAIN statuses : statuses[t] = STARTED THEN STARTED
    ELSE IF \E t \in DOMAIN statuses : statuses[t] = READY THEN READY
    ELSE IF \E t \in DOMAIN statuses : statuses[t] = ERROR THEN ERROR
    ELSE PAUSED

\* update_job_status: the job handle before self.update(t).
updated_job(h, row, statuses, failed) ==
    LET h0 == refresh(h, row, "id")
        h1 == setattr(h0, "task_done",
                 Cardinality({t \in DOMAIN statuses : statuses[t] = FINISHED}))
        h2 == IF failed # ""
              THEN setattr(setattr(h1, "attempts", h1.v.attempts + 1),
                           "failed_nodes", Append(h1.v.failed_nodes, failed))
              ELSE h1
    IN  setattr(h2, "status",
                job_status_of(h2.v.attempts, h2.v.max_attempts, statuses))

\* update_job_status: its transaction.
update_job_status(n) ==
    /\ pc[n] = "job_write"
    /\ \E j \in {job_h[n].v.id} :
       \E h \in {updated_job(job_h[n], jobs[j], task_list[n],
                              failed_node[n])} :
       \E D \in {update_job(h, Tables)} :
           /\ write(D)
           /\ job_h' = [job_h EXCEPT ![n] = update_handle(h)]
           /\ failures' = IF failed_node[n] = "" THEN failures
                          ELSE [failures EXCEPT ![j] =
                                  [n |-> @.n + 1, hosts |-> @.hosts \cup {n}]]
    /\ pc' = [pc EXCEPT ![n] = "node_read"]
    /\ UNCHANGED <<this_node, task_h, task_list, child_process, returncode,
                   child_killed, failed_node, view, clock, count, uvars>>

\* launch_render_task, "Update Node": this_node = get_this_node().
node_read(n) ==
    /\ pc[n] = "node_read"
    /\ this_node' = [this_node EXCEPT ![n] = fetch(render_nodes[n], {})]
    /\ pc' = [pc EXCEPT ![n] = "node_write"]
    /\ UNCHANGED <<dbvars, job_h, task_h, task_list, child_process, returncode,
                   child_killed, failed_node, view, clock, count, failures, uvars>>

\* launch_render_task, "Update Node": the node handle before update().
completed_node(h) ==
    LET h1 == setattr(h, "task_id", 0)
    IN  setattr(h1, "status",
                IF h1.v.status = PENDING THEN OFFLINE ELSE IDLE)

\* launch_render_task, "Update Node": the write, and the end of the task.
node_update(n) ==
    /\ pc[n] = "node_write"
    /\ \E node \in {completed_node(this_node[n])} :
       \E D \in {update_node(node, Tables)} :
           /\ write(D)
           /\ this_node' = [this_node EXCEPT ![n] = update_handle(node)]
    /\ pc' = [pc EXCEPT ![n] = "idle"]
    /\ forget(n)
    /\ UNCHANGED <<child_killed, view, clock, count, failures, uvars>>

\* ------------------------------------------------------------------ the other threads
\* The threads of a worker run once unstick_task has returned.
serving(n) == pc[n] \notin {"down", "boot", "unstick"}

\* RenderTCPServer.heartbeat
heartbeat(n) ==
    /\ serving(n)
    /\ clock[n] < MaxPulse
    /\ \E h \in {setattr(this_node[n], "pulse", clock[n] + 1)} :
       \E D \in {update_node(h, Tables)} :
           /\ write(D)
           /\ this_node' = [this_node EXCEPT ![n] = update_handle(h)]
    /\ clock' = [clock EXCEPT ![n] = @ + 1]
    /\ UNCHANGED <<pc, job_h, task_h, task_list, child_process, returncode,
                   child_killed, failed_node, view, count, failures, uvars>>

\* RenderTCPServer.kill_current_task, its return value with a child running:
\* child_killed is 1, becomes -1 when the parent process survives terminate
\* and kill, and has -10 added when descendants survive them.
kill_code(parent_alive, children_alive) ==
    LET child_killed_1 == IF parent_alive THEN -1 ELSE 1
    IN  IF children_alive THEN child_killed_1 + (-10) ELSE child_killed_1

\* RenderTCPServer.kill_current_task, what it does to the worker: the flag is
\* set first; with a child running, the parent process ends (terminate or
\* kill) or survives both, and so do its descendants.
kill_the_child(n) ==
    IF child_process[n] # "running"
    THEN /\ child_killed' = [child_killed EXCEPT ![n] = 1]
         /\ UNCHANGED <<child_process, returncode, pc>>
    ELSE \E parent_alive \in BOOLEAN : \E children_alive \in BOOLEAN :
         /\ child_killed' = [child_killed EXCEPT ![n] =
                                kill_code(parent_alive, children_alive)]
         /\ IF parent_alive
            THEN UNCHANGED <<child_process, returncode, pc>>
            ELSE /\ child_process' = [child_process EXCEPT ![n] = "exited"]
                 /\ returncode' = [returncode EXCEPT ![n] = ReturnTerminated]
                 /\ pc' = [pc EXCEPT ![n] = "task_update"]

\* RenderTCPServer.kill_current_task, as handle_connection calls it.  Nothing
\* in a running worker calls handle_connection (see handle): the action is a
\* direct call of the method beside the render loop.
kill_current_task(n) ==
    /\ serving(n)
    /\ count.kills < MaxKills
    /\ count' = [count EXCEPT !.kills = @ + 1]
    /\ kill_the_child(n)
    /\ UNCHANGED <<dbvars, this_node, job_h, task_h, task_list, failed_node,
                   view, clock, failures, uvars>>

\* The request lines a client may write: requests in JSON (an echo with and
\* without an argument, the three commands of a worker, an unknown command)
\* and a line that is not JSON.
Lines ==
    {[json |-> TRUE, cmd |-> cmd, args |-> args, kwargs |-> <<>>] :
        cmd \in {"echo", "kill_current_task", "shutdown", "status"},
        args \in {<<>>, <<[enum |-> FALSE, value |-> KILLED]>>}}
    \cup {[json |-> FALSE, cmd |-> "", args |-> <<>>, kwargs |-> <<>>]}

\* HydraTCPServerThread (server.serve_forever): one connection handled by
\* _HydraTCPHandler.handle.  A line that is not JSON makes from_bytes raise
\* before anything is written.
serve_forever(n, line) ==
    /\ serving(n)
    /\ connection[n].request # line
    /\ connection' = [connection EXCEPT ![n] =
          [request |-> line,
           wfile |-> IF line.json /\ handle(line).written
                     THEN <<[msg |-> handle(line).msg,
                             err |-> handle(line).err]>>
                     ELSE <<>>]]
    /\ UNCHANGED <<dbvars, wvars, view, clock, count, failures, all_threads,
                   locks, kill_tasks, manager>>

\* RenderTCPServer.shutdown from the render thread with no child: the node
\* handle and the tables after it.
shutdown(n, D) ==
    LET h == fetch(D.n[n], {})
        cs == h.v.status
        new_status == IF cs \in {IDLE, STARTED} THEN IDLE ELSE OFFLINE
        r1 == IF cs \in {STARTED, PENDING}
              THEN get_off(h, D, [x \in Hosts |-> "up"]) ELSE offline(h, D)
    IN  IF new_status = IDLE THEN online(r1.h, r1.db) ELSE offline(r1.h, r1.db)

\* launch_render_task: the log file cannot be opened; the node goes offline
\* and the worker shuts down.
log_open_error(n) ==
    /\ pc[n] = "spawn"
    /\ count.crashes < MaxCrashes
    /\ count' = [count EXCEPT !.crashes = @ + 1]
    /\ \E r1 \in {offline(this_node[n], Tables)} :
           /\ ~get_off_raises(fetch(r1.db.n[n], {}), r1.db,
                              [x \in Hosts |-> "up"])
           /\ \E D \in {shutdown(n, r1.db).db} : write(D)
    /\ this_node' = [this_node EXCEPT ![n] = NoHandle]
    /\ child_killed' = [child_killed EXCEPT ![n] = 0]
    /\ pc' = [pc EXCEPT ![n] = "down"]
    /\ all_threads' = [all_threads EXCEPT ![n] =
          HydraThreadManager_shutdown(@)]
    /\ forget(n)
    /\ UNCHANGED <<view, clock, failures, connection, locks,
                   kill_tasks, manager>>

\* HydraThread.run of the render thread: a database call of the tick raises
\* (the open transaction rolls back).  run has try and finally but no except:
\* the exception leaves the while loop, stopped is set and the thread ends;
\* the other threads of the process go on.
run_raises(n) ==
    /\ pc[n] \in {"idle", "get_job", "commit", "task_update", "job_read",
                  "job_write", "node_read", "node_write"}
    /\ pc' = [pc EXCEPT ![n] = "ended"]
    /\ all_threads' = [all_threads EXCEPT ![n]["Render Loop"].stopped = TRUE]
    /\ UNCHANGED <<dbvars, this_node, job_h, task_h, task_list, child_process,
                   returncode, child_killed, failed_node, view, clock, count,
                   failures, connection, locks,
                   kill_tasks, manager>>

\* find_render_task: task.update(t) has executed its UPDATE and cleared the
\* task handle's dirty set, then job.update(t) raises (the statement fails in
\* the database).  The transaction rolls back, nothing is stored, and the
\* exception ends the render thread as in run_raises.
find_render_task_raises(n) ==
    /\ pc[n] = "commit"
    /\ task_h' = [task_h EXCEPT ![n] = update_handle(claim_task(n))]
    /\ job_h' = [job_h EXCEPT ![n] = claim_job(n)]
    /\ this_node' = [this_node EXCEPT ![n] = claim_node(n)]
    /\ pc' = [pc EXCEPT ![n] = "ended"]
    /\ all_threads' = [all_threads EXCEPT ![n]["Render Loop"].stopped = TRUE]
    /\ UNCHANGED <<dbvars, task_list, child_process, returncode, child_killed,
                   failed_node, view, clock, count, failures, connection,
                   locks, kill_tasks, manager>>

\* The worker process dies (and its child with it).
crash(n) ==
    /\ pc[n] # "down"
    /\ count.crashes < MaxCrashes
    /\ count' = [count EXCEPT !.crashes = @ + 1]
    /\ this_node' = [this_node EXCEPT ![n] = NoHandle]
    /\ child_killed' = [child_killed EXCEPT ![n] = 0]
    /\ pc' = [pc EXCEPT ![n] = "down"]
    /\ all_threads' = [all_threads EXCEPT ![n] = <<>>]
    /\ forget(n)
    /\ UNCHANGED <<dbvars, view, clock, failures, connection, locks,
                   kill_tasks, manager>>

\* The worker is started again.
restart(n) ==
    /\ pc[n] = "down"
    /\ pc' = [pc EXCEPT ![n] = "boot"]
    /\ all_threads' = [all_threads EXCEPT ![n] = <<>>]
    /\ UNCHANGED <<dbvars, this_node, job_h, task_h, task_list, child_process,
                   returncode, child_killed, failed_node, view, clock, count,
                   failures, connection, locks,
                   kill_tasks, manager>>

\* ------------------------------------------------------------------ the controller
\* FarmView.do_refresh after the controller's c-th operation: the trees get
\* new handles; after the last operation the window is closed and holds none.
refreshed_view(D, c) ==
    IF c < MaxCtlOps THEN fetch_view(D) ELSE [jobs |-> <<>>, nodes |-> <<>>]

\* The trees after a c-th operation that stopped with an exception before
\* its do_refresh.
kept_view(c) ==
    IF c < MaxCtlOps THEN view ELSE [jobs |-> <<>>, nodes |-> <<>>]

\* FarmView.populate_node_tree after the c-th operation.
populate_node_tree(D, c) ==
    IF c < MaxCtlOps THEN [view EXCEPT !.nodes = fetch_view(D).nodes]
    ELSE [jobs |-> <<>>, nodes |-> <<>>]

\* The update timer of FarmView fires.
do_refresh_view ==
    /\ count.ctl < MaxCtlOps
    /\ count' = [count EXCEPT !.ctl = @ + 1]
    /\ view' = refreshed_view(Tables, count.ctl + 1)
    /\ UNCHANGED <<dbvars, wvars, clock, failures, uvars>>

\* The connection a controller gets to each host: where no TCP server
\* listens it is refused or, with the host down too, times out.
Nets == {net \in [Hosts -> {"up", "refused", "timeout"}] :
            \A h \in Hosts : net[h] = "up" <=> serving(h)}

\* A node callback of FarmView: the method on the handle of the node tree,
\* then populate_node_tree.
node_callback(r) ==
    /\ count.ctl < MaxCtlOps
    /\ count' = [count EXCEPT !.ctl = @ + 1]
    /\ \E D \in {r.db} :
           /\ write(D)
           /\ view' = populate_node_tree(D, count.ctl + 1)
    /\ UNCHANGED <<wvars, clock, failures, uvars>>

online_render_nodes_callback(h) ==
    node_callback(online(view.nodes[h], Tables))

offline_render_nodes_callback(h) ==
    node_callback(offline(view.nodes[h], Tables))

\* A job callback of FarmView: the method on the handle of the job tree,
\* then do_refresh.
job_callback(r, returned) ==
    /\ count.ctl < MaxCtlOps
    /\ count' = [count EXCEPT !.ctl = @ + 1]
    /\ \E D \in {r.db} :
           /\ write(D)
           /\ view' = IF returned THEN refreshed_view(D, count.ctl + 1)
                      ELSE kept_view(count.ctl + 1)
    /\ UNCHANGED <<wvars, clock, uvars>>

start_job_callback(j) ==
    /\ job_callback(job_start(view.jobs[j], Tables), TRUE)
    /\ UNCHANGED failures

pause_job_callback(j) ==
    /\ job_callback(job_pause(view.jobs[j], Tables), TRUE)
    /\ UNCHANGED failures

kill_job_callback(j) ==
    /\ count.ctl < MaxCtlOps
    /\ \E net \in Nets :
       \E r \in {job_kill(view.jobs[j], Tables, HydraStatus(KILLED),
                          TRUE, net)} :
          job_callback(r, r.ret)
    /\ UNCHANGED failures

reset_job_callback(j) ==
    /\ job_callback(job_reset(view.jobs[j], Tables), TRUE)
    /\ failures' = [failures EXCEPT ![j] = [n |-> 0, hosts |-> {}]]

reset_nodes_job_callback(j) ==
    /\ job_callback(reset_failed_nodes(view.jobs[j], Tables), TRUE)
    /\ failures' = [failures EXCEPT ![j].hosts = {}]

\* job.pause() followed by job.start() on a handle just fetched, for a job on
\* which pause() is applicable.
pause_start(j) ==
    /\ count.calls < MaxCalls
    /\ count' = [count EXCEPT !.calls = @ + 1]
    /\ \E p \in {job_pause(fetch(jobs[j], {}), Tables)} :
           /\ p.ret
           /\ write(job_start(p.h, p.db).db)
    /\ UNCHANGED <<wvars, view, clock, failures, uvars>>

\* HydraRenderJob.kill(KILLED, tcp_kill) called on a handle of job j, up to
\* the end of its task.kill calls: get_tasks, then task.kill on each handle,
\* each call a transaction of its own.  A refused connection ends the call
\* with the exception of send_request.
job_kill_tasks(j, tcp_kill, net) ==
    /\ count.calls < MaxCalls
    /\ kill_tasks[j] = <<>>
    /\ count' = [count EXCEPT !.calls = @ + 1]
    /\ \E ks \in {kill_each(task_handles(j, Tables,
                       {"id", "status", "exit_code", "end_time", "host"}),
                     Tables, 1, HydraStatus(KILLED), tcp_kill, net)} :
           /\ write(ks.db)
           /\ kill_tasks' = [kill_tasks EXCEPT ![j] =
                                IF ks.raised THEN <<>> ELSE ks.hs]
    /\ UNCHANGED <<wvars, view, clock, failures, connection, all_threads,
                   locks, manager>>

\* The rest of that call: update_attr on the job, then on every task whose
\* handle is not FINISHED, and the return.
job_kill_updates(j) ==
    /\ kill_tasks[j] # <<>>
    /\ write(kill_updates(fetch(jobs[j], {"id"}), kill_tasks[j], Tables,
                          HydraStatus(KILLED)))
    /\ kill_tasks' = [kill_tasks EXCEPT ![j] = <<>>]
    /\ UNCHANGED <<wvars, view, clock, count, failures, connection,
                   all_threads, locks, manager>>

\* FarmView.get_off_render_nodes_callback on the handle of the node tree: an
\* exception of get_off ends the callback before populate_node_tree.
get_off_render_nodes_callback(h) ==
    /\ count.ctl < MaxCtlOps
    /\ count' = [count EXCEPT !.ctl = @ + 1]
    /\ \E net \in Nets :
       \E raised \in {get_off_raises(view.nodes[h], Tables, net)} :
       \E D \in {get_off(view.nodes[h], Tables, net).db} :
           /\ write(D)
           /\ view' = IF raised THEN kept_view(count.ctl + 1)
                      ELSE populate_node_tree(D, count.ctl + 1)
    /\ UNCHANGED <<wvars, clock, failures, uvars>>

\* A callback of the "This Node" tab of a FarmView that runs on host h: the
\* method on the handle get_this_node() gives at that moment, then
\* populate_node_tree unless the method raised.
this_node_callback(r, raised) ==
    /\ count.node < MaxNodeOps
    /\ count' = [count EXCEPT !.node = @ + 1]
    /\ \E D \in {r.db} :
           /\ write(D)
           /\ view' = IF raised THEN view
                      ELSE populate_node_tree(D, count.ctl)
    /\ UNCHANGED <<wvars, clock, failures, uvars>>

online_this_node_callback(h) ==
    this_node_callback(online(fetch(render_nodes[h], {}), Tables), FALSE)

offline_this_node_callback(h) ==
    this_node_callback(offline(fetch(render_nodes[h], {}), Tables), FALSE)

get_off_this_node_callback(h) ==
    \E net \in Nets :
        this_node_callback(
            get_off(fetch(render_nodes[h], {}), Tables, net),
            get_off_raises(fetch(render_nodes[h], {}), Tables, net))

\* A str passed where a HydraStatus member is expected.
str(s) == [enum |-> FALSE, value |-> s]

\* HydraRenderTask.kill asks the worker: the task is STARTED and the node of
\* its host has it as task_id.
asks(t, tcp_kill) ==
    /\ tasks[t].status = STARTED
    /\ tcp_kill
    /\ render_nodes[tasks[t].host].task_id = t

\* HydraRenderTask.kill(new_status, tcp_kill) called on a handle of task t
\* fetched for the call (FarmView.kill_task_callback is the call with the
\* default arguments), over the connections net.  A request that reaches
\* the worker changes nothing there (handle); a refused connection ends the
\* call with the exception of send_request.
kill(t, new_status, tcp_kill, net) ==
    /\ count.calls < MaxCalls
    /\ count' = [count EXCEPT !.calls = @ + 1]
    /\ \E host \in {tasks[t].host} :
       \E raised \in {asks(t, tcp_kill) /\ send_request_raises(net[host])} :
       \E D \in {IF raised THEN Tables
                  ELSE task_kill(fetch(tasks[t], {}), Tables, new_status,
                                 tcp_kill,
                                 IF asks(t, tcp_kill) THEN net[host]
                                 ELSE "up").db} :
           write(D)
    /\ UNCHANGED <<wvars, view, clock, failures, uvars>>

\* ------------------------------------------------------------------ specifications
Worker(n) ==
    \/ get_this_node(n)
    \/ unstick_task(n)
    \/ render_loop(n)
    \/ get_job(n)
    \/ find_render_task(n)
    \/ launch_render_task(n)
    \/ Popen(n)
    \/ child_exit(n)
    \/ task_update(n)
    \/ job_read(n)
    \/ update_job_status(n)
    \/ node_read(n)
    \/ node_update(n)

\* What a user of FarmView does to nodes and jobs.
Callbacks ==
    \/ \E h \in Hosts : online_render_nodes_callback(h)
    \/ \E h \in Hosts : offline_render_nodes_callback(h)
    \/ \E j \in JobIds : start_job_callback(j)
    \/ \E j \in JobIds : pause_job_callback(j)
    \/ \E j \in JobIds : kill_job_callback(j)
    \/ \E j \in JobIds : reset_job_callback(j)
    \/ \E j \in JobIds : reset_nodes_job_callback(j)

\* What a user of FarmView does to a node beyond online and offline of the
\* node tree.
NodeCallbacks ==
    \/ \E h \in Hosts : get_off_render_nodes_callback(h)
    \/ \E h \in Hosts : online_this_node_callback(h)
    \/ \E h \in Hosts : offline_this_node_callback(h)
    \/ \E h \in Hosts : get_off_this_node_callback(h)

\* The calls of HydraRenderTask.kill.
KillCalls ==
    \E t \in TaskIds : \E new_status \in {HydraStatus(KILLED), str(KILLED)} :
    \E tcp_kill \in BOOLEAN : \E net \in Nets :
        kill(t, new_status, tcp_kill, net)

Controller ==
    \/ do_refresh_view
    \/ Callbacks
    \/ NodeCallbacks
    \/ KillCalls

Next ==
    \/ \E n \in Hosts : Worker(n)
    \/ \E n \in Hosts : heartbeat(n)
    \/ \E n \in Hosts : log_open_error(n)
    \/ \E n \in Hosts : run_raises(n)
    \/ \E n \in Hosts : find_render_task_raises(n)
    \/ \E n \in Hosts : \E line \in Lines : serve_forever(n, line)
    \/ \E n \in Hosts : crash(n)
    \/ \E n \in Hosts : restart(n)
    \/ Controller

Spec == Init /\ [][Next]_vars

\* The workers alone: render loops racing on the same tables.
NextWorkers == \E n \in Hosts : Worker(n)

SpecWorkers == Init /\ [][NextWorkers]_vars

\* The workers alone on a job that allows a single attempt.
SpecSingleAttempt == InitSingleAttempt /\ [][NextWorkers]_vars

\* The workers and direct calls of kill_current_task.
NextKill ==
    \/ \E n \in Hosts : Worker(n)
    \/ \E n \in Hosts : kill_current_task(n)

SpecKill == Init /\ [][NextKill]_vars

\* The workers and a controller.
NextControl ==
    \/ \E n \in Hosts : Worker(n)
    \/ Callbacks

SpecControl == Init /\ [][NextControl]_vars

\* The workers and the calls of HydraRenderTask.kill.
NextKillCalls ==
    \/ \E n \in Hosts : Worker(n)
    \/ KillCalls

SpecKillCalls == Init /\ [][NextKillCalls]_vars

\* A user who gets nodes off, beside workers whose children never fail by
\* themselves.
NextGetOff ==
    /\ \/ \E n \in Hosts : Worker(n)
       \/ \E h \in Hosts : get_off_this_node_callback(h)
    /\ count'.failed = count.failed

SpecGetOff == Init /\ [][NextGetOff]_vars

\* The host a FarmView runs on beside the worker of that host.
my_host_name == CHOOSE h \in Hosts : TRUE

\* That worker alone, the "This Node" tab of that FarmView and the calls of
\* HydraRenderTask.kill.
NextThisNode ==
    \/ Worker(my_host_name)
    \/ online_this_node_callback(my_host_name)
    \/ offline_this_node_callback(my_host_name)
    \/ get_off_this_node_callback(my_host_name)
    \/ KillCalls

SpecThisNode == Init /\ [][NextThisNode]_vars

\* That worker with its pulse thread, beside a user who sets the node online
\* and offline.
NextPulse ==
    \/ Worker(my_host_name)
    \/ heartbeat(my_host_name)
    \/ online_this_node_callback(my_host_name)
    \/ offline_this_node_callback(my_host_name)

SpecPulse == Init /\ [][NextPulse]_vars

\* That worker, a user who kills jobs and a script that pauses and restarts
\* them.
NextPauseStart ==
    \/ Worker(my_host_name)
    \/ \E j \in JobIds : kill_job_callback(j)
    \/ \E j \in JobIds : pause_start(j)

SpecPauseStart == Init /\ [][NextPauseStart]_vars

\* That worker, which may die and be started again, and the calls of
\* HydraRenderTask.kill.
NextCrash ==
    \/ Worker(my_host_name)
    \/ crash(my_host_name)
    \/ restart(my_host_name)
    \/ KillCalls

SpecCrash == Init /\ [][NextCrash]_vars

\* That worker, which may die and be started again, beside a user who gets
\* its node off and sets it online from the This Node tab.
SpecRecovery ==
    /\ Init
    /\ [][\/ Worker(my_host_name)
          \/ crash(my_host_name)
          \/ restart(my_host_name)
          \/ get_off_this_node_callback(my_host_name)
          \/ online_this_node_callback(my_host_name)]_vars

\* The process of that worker: its render loop and its TCP server.
NextProcess ==
    \/ Worker(my_host_name)
    \/ \E line \in Lines : serve_forever(my_host_name, line)
    \/ log_open_error(my_host_name)
    \/ restart(my_host_name)
    \/ run_raises(my_host_name)
    \/ find_render_task_raises(my_host_name)

SpecProcess == Init /\ [][NextProcess]_vars

\* That worker, and calls of job.kill whose transactions interleave with
\* its own.
NextJobKill ==
    \/ Worker(my_host_name)
    \/ \E j \in JobIds : \E tcp_kill \in BOOLEAN : \E net \in Nets :
          job_kill_tasks(j, tcp_kill, net)
    \/ \E j \in JobIds : job_kill_updates(j)

SpecJobKill == Init /\ [][NextJobKill]_vars

\* A process that gives threads to its HydraThreadManager, terminates them
\* and waits in run_forever.  A thread that can take a step other than the
\* return of its target takes it, and so does run_forever.
SpecThreads ==
    /\ Init
    /\ [][\/ \E th \in ThreadNames : \E delay \in BOOLEAN :
             \E interval \in BOOLEAN : \E single_shot \in BOOLEAN :
                start(th, delay, interval, single_shot)
          \/ \E th \in ThreadNames : run(th)
          \/ \E th \in ThreadNames : terminate(th)
          \/ run_forever]_vars
    /\ \A th \in ThreadNames :
          WF_vars(/\ th \in DOMAIN manager.all_threads
                  /\ manager.all_threads[th].at # "target"
                  /\ run(th))
    /\ WF_vars(run_forever)

\* The instance locks of the hosts: processes that create InstanceLock
\* objects and remove them.
NextLock ==
    \/ \E n \in Hosts : \E l \in LockIds : \E p \in Procs : InstanceLock(n, l, p)
    \/ \E n \in Hosts : \E l \in LockIds : remove(n, l)

SpecLock == Init /\ [][NextLock]_vars

\* The workers and a user who sets nodes of the node tree online and offline.
NextNodes ==
    \/ \E n \in Hosts : Worker(n)
    \/ \E h \in Hosts : online_render_nodes_callback(h)
    \/ \E h \in Hosts : offline_render_nodes_callback(h)

SpecNodes == Init /\ [][NextNodes]_vars

\* The workers on a job whose tasks differ in priority.
SpecPriorities == InitPriorities /\ [][NextWorkers]_vars

\* Workers that keep running: every render thread goes on, every child ends.
SpecFair ==
    /\ Init
    /\ [][NextWorkers]_vars
    /\ \A n \in Hosts : WF_vars(Worker(n))

\* ------------------------------------------------------------------ claims
\* The render thread of n is between the task.update() and the node update
\* of launch_render_task: its completion is under way.
completing(n) == pc[n] \in {"job_read", "job_write", "node_read", "node_write"}

\* The step of n is the COMMIT of its dispatch claim.
claims(n) == pc[n] = "commit" /\ pc'[n] = "launch"

\* C1: for any interleaving of the dispatch claims of two or more workers, no
\* two different node rows are STARTED with task_id pointing at the same task.
C1_NoTaskClaimedByTwoNodes ==
    \A n, m \in Hosts :
        /\ n # m
        /\ render_nodes[n].status = STARTED
        /\ render_nodes[m].status = STARTED
        /\ render_nodes[n].task_id # 0
        => render_nodes[n].task_id # render_nodes[m].task_id

\* C2: after any sequence of worker and controller operations, every node row
\* that is STARTED has a task_id, and the task it names is STARTED with host
\* equal to the node's host (a worker in the middle of its completion, whose
\* task row is written before its node row, is not looked at).
C2_StartedNodeRunsStartedTask ==
    \A n \in Hosts :
        render_nodes[n].status = STARTED /\ ~completing(n)
        => /\ render_nodes[n].task_id # 0
           /\ tasks[render_nodes[n].task_id].status = STARTED
           /\ tasks[render_nodes[n].task_id].host = n

\* C3: after any sequence of operations, every job whose attempts is greater
\* than or equal to max_attempts has status ERROR.
C3_AttemptsExhaustedIsError ==
    \A j \in JobIds :
        jobs[j].attempts >= jobs[j].max_attempts => jobs[j].status = ERROR

\* C4: immediately after the transaction of update_job_status commits, the
\* job's stored task_done is the number of its tasks stored as FINISHED.
C4_TaskDoneCountsFinished ==
    [][\A n \in Hosts :
          pc[n] = "job_write" /\ pc'[n] = "node_read"
          => LET j == job_h[n].v.id
             IN  jobs'[j].task_done =
                   Cardinality({t \in TaskIds :
                       tasks'[t].job_id = j /\ tasks'[t].status = FINISHED})]_vars

\* The statuses a task is left in when it is no longer STARTED.
LeftStarted == {FINISHED, READY, KILLED, ERROR, CRASHED}

C6_ClaimChangesOnlyStatus ==
    [][\A n \in Hosts :
          claims(n)
          => LET t == task_h[n].v.id
                 j == job_h[n].v.id
             IN  /\ tasks'[t].status = STARTED
                 /\ tasks'[t].host = n
                 /\ tasks'[t].start_time
                 /\ jobs'[j].status = STARTED
                 /\ render_nodes'[n].status = STARTED
                 /\ render_nodes'[n].task_id = t
                 /\ jobs'[j].attempts = jobs[j].attempts
                 /\ jobs'[j].failed_nodes = jobs[j].failed_nodes
                 /\ jobs'[j].task_done = jobs[j].task_done]_vars

\* C7: at the moment a claim commits, the task it starts satisfies the WHERE
\* clause of the claim query (READY, job not archived, priority above the
\* node's min_priority, attempts below max_attempts, host not in
\* failed_nodes, capabilities matching requirements).
C7_ClaimedTaskIsEligible ==
    [][\A n \in Hosts :
          claims(n) => where_clause(task_h[n].v.id, n, tasks, jobs)]_vars

\* C8: a host whose failure was reported for a job since the job's last
\* reset is in the job's stored failed_nodes and has not claimed a task of
\* that job since.
C8_FailedNodeStaysExcluded ==
    \A j \in JobIds : \A n \in failures[j].hosts :
        /\ failed_nodes_like(jobs[j].failed_nodes, n)
        /\ ~(pc[n] \in {"launch", "spawn", "wait"} /\ job_h[n].v.id = j)

\* C9: what the worker has recorded when it calls update_job_status: the
\* exit code is -1234 for a child never started, -1 for one marked killed,
\* else the child's return code; the task is FINISHED exactly when that code
\* is 0, else READY; failed_node is the host exactly when the code is not 0
\* and the child was not killed by the worker (its code is not -1).
C9_CompletionRecord ==
    \A n \in Hosts :
        pc[n] = "job_write"
        => LET exit_code == task_h[n].v.exit_code
           IN  /\ child_process[n] = "none" => exit_code = {ExitNotStarted}
               /\ child_process[n] # "none"
                  => exit_code \in {{ExitKilled}, {returncode[n]}}
               /\ task_h[n].v.status = FINISHED <=> exit_code = {0}
               /\ task_h[n].v.status \in {FINISHED, READY}
               /\ child_process[n] # "none"
                  => (failed_node[n] = n
                        <=> exit_code \notin {{0}, {ExitKilled}})

\* C10: every failure reported to update_job_status adds one to the stored
\* attempts and appends the host to the stored failed_nodes, and after n
\* failures since the last reset the stored attempts is n.
C10_EveryFailureCounted ==
    /\ [][\A n \in Hosts :
            pc[n] = "job_write" /\ pc'[n] = "node_read" /\ failed_node[n] # ""
            => LET j == job_h[n].v.id
               IN  /\ jobs'[j].attempts = jobs[j].attempts + 1
                   /\ jobs'[j].failed_nodes = Append(jobs[j].failed_nodes, n)]_vars
    /\ [](\A j \in JobIds : jobs[j].attempts = failures[j].n)

\* C11: in every reachable state every job has attempts <= max_attempts, for
\* any number of workers running and failing tasks of the same job.
C11_AttemptsWithinMax ==
    \A j \in JobIds : jobs[j].attempts <= jobs[j].max_attempts

\* C12: the write that ends a worker's completion path leaves its node row
\* with task_id cleared and with status OFFLINE if the row was PENDING at
\* that time, otherwise IDLE, and changes no other column of the row.
C12_CompletionWritesNode ==
    [][\A n \in Hosts :
          pc[n] = "node_write" /\ pc'[n] = "idle"
          => /\ render_nodes'[n].task_id = 0
             /\ render_nodes'[n].status =
                   IF render_nodes[n].status = PENDING THEN OFFLINE ELSE IDLE
             /\ \A c \in DOMAIN render_nodes[n] \ {"task_id", "status"} :
                   render_nodes'[n][c] = render_nodes[n][c]]_vars

\* C13: when task.kill(new_status, tcp_kill = True) is called on a STARTED
\* task whose node has it as task_id and the worker answers with err = False,
\* the call writes nothing to the database: the three tables are unchanged.
C13_AnsweredKillWritesNothing ==
    [][\A t \in TaskIds : \A net \in Nets :
       \A new_status \in {HydraStatus(KILLED), str(KILLED)} :
          /\ asks(t, TRUE)
          /\ net[tasks[t].host] = "up"
          /\ ~send_kill_question(net[tasks[t].host], new_status).err
          /\ kill(t, new_status, TRUE, net)
          => UNCHANGED dbvars]_vars

\* C14: when task.kill(KILLED, tcp_kill = True) is called on a STARTED task
\* and the exchange gives a timeout response or a response with err = True,
\* the call itself writes the task KILLED with exit_code 1 and end_time set,
\* and the node with task_id cleared and, if it was STARTED, status OFFLINE.
C14_FailedKillMarksDead ==
    [][\A t \in TaskIds : \A net \in Nets :
       \A new_status \in {HydraStatus(KILLED), str(KILLED)} :
          /\ asks(t, TRUE)
          /\ net[tasks[t].host] \in {"up", "timeout"}
          /\ send_kill_question(net[tasks[t].host], new_status).err
          /\ kill(t, new_status, TRUE, net)
          => LET host == tasks[t].host
             IN  /\ tasks'[t].status = KILLED
                 /\ tasks'[t].exit_code = {ExitMarkedDead}
                 /\ tasks'[t].end_time
                 /\ render_nodes'[host].task_id = 0
                 /\ render_nodes[host].status = STARTED
                    => render_nodes'[host].status = OFFLINE]_vars

\* C15: whenever task.kill finalizes a STARTED task locally (tcp_kill is
\* False, or the node of its host has another task_id), it sets the task's
\* status to new_status, exit_code to 1 and end_time, and in the same
\* transaction the node's task_id to null and its status to IDLE if it was
\* STARTED, otherwise OFFLINE.
C15_LocalFinalization ==
    [][\A t \in TaskIds : \A net \in Nets : \A tcp_kill \in BOOLEAN :
       \A new_status \in {HydraStatus(KILLED), str(KILLED)} :
          /\ tasks[t].status = STARTED
          /\ ~asks(t, tcp_kill)
          /\ kill(t, new_status, tcp_kill, net)
          => LET host == tasks[t].host
             IN  /\ tasks'[t].status = new_status.value
                 /\ tasks'[t].exit_code = {ExitMarkedDead}
                 /\ tasks'[t].end_time
                 /\ render_nodes'[host].task_id = 0
                 /\ render_nodes'[host].status =
                       IF render_nodes[host].status = STARTED THEN IDLE
                       ELSE OFFLINE]_vars

\* C17: once offline() has been applied to a node (its row is OFFLINE or
\* PENDING), no step of a worker takes the row out of OFFLINE and PENDING:
\* the worker claims no task until online() is applied, and a task it was
\* running completes with the row ending OFFLINE.  The handle the controller
\* acts on may be older than the worker's latest claim or completion.
C17_Drain ==
    [][\A n \in Hosts :
          /\ render_nodes[n].status \in {OFFLINE, PENDING}
          /\ count'.ctl = count.ctl
          /\ count'.node = count.node
          => /\ render_nodes'[n].status \in {OFFLINE, PENDING}
             /\ pc[n] = "node_write" /\ pc'[n] = "idle"
                => render_nodes'[n].status = OFFLINE]_vars

\* C15 amended: a local finalization by task.kill sets the task's status to
\* new_status, exit_code to 1 and end_time; with tcp_kill False it sets, in
\* the same transaction, the node's task_id to null and its status to IDLE
\* if it was STARTED, otherwise OFFLINE; with tcp_kill True and another
\* task_id on the node it leaves the node row as it is.
C15_LocalFinalizationAmended ==
    [][\A t \in TaskIds : \A net \in Nets : \A tcp_kill \in BOOLEAN :
       \A new_status \in {HydraStatus(KILLED), str(KILLED)} :
          /\ tasks[t].status = STARTED
          /\ ~asks(t, tcp_kill)
          /\ kill(t, new_status, tcp_kill, net)
          => LET host == tasks[t].host
             IN  /\ tasks'[t].status = new_status.value
                 /\ tasks'[t].exit_code = {ExitMarkedDead}
                 /\ tasks'[t].end_time
                 /\ tcp_kill => render_nodes'[host] = render_nodes[host]
                 /\ ~tcp_kill
                    => /\ render_nodes'[host].task_id = 0
                       /\ render_nodes'[host].status =
                             IF render_nodes[host].status = STARTED THEN IDLE
                             ELSE OFFLINE]_vars

\* C15, its case: a call of task.kill has marked a task dead on a host whose
\* node had been got off and set online again with its worker still waiting
\* for the child.
C15_Witness ==
    \E t \in TaskIds :
        /\ count.calls > 0
        /\ count.node > 1
        /\ tasks[t].status = KILLED
        /\ tasks[t].exit_code = {ExitMarkedDead}
        /\ tasks[t].end_time
        /\ pc[tasks[t].host] = "wait"
        /\ render_nodes[tasks[t].host].status = IDLE

\* C16: when a worker answers a kill_current_task request (its answer has
\* err = False) while its node row is STARTED on a task it has claimed and
\* not yet recorded, the task is not left running: after the request no
\* child runs or is about to be started, and the completion path is about to
\* record the task as killed (a child that was started, a kill flag set).
C16_AnsweredKillEndsTask ==
    [][\A n \in Hosts :
          /\ render_nodes[n].status = STARTED
          /\ render_nodes[n].task_id # 0
          /\ pc[n] \in {"launch", "spawn", "wait"}
          /\ kill_current_task(n)
          => /\ pc'[n] = "task_update"
             /\ child_process'[n] = "exited"
             /\ child_killed'[n] # 0]_vars

C19_JobStatusFollowsPrecedence ==
    [][\A n \in Hosts :
          pc[n] = "job_write" /\ pc'[n] = "node_read"
          => LET j == job_h[n].v.id
             IN  jobs'[j].status =
                   job_status_of(jobs'[j].attempts, jobs'[j].max_attempts,
                       [t \in {u \in TaskIds : tasks'[u].job_id = j}
                           |-> tasks'[t].status])]_vars

\* C20: the write of FINISHED to a completed task and the update_job_status
\* after it are one atomic step: in no state is a task stored as FINISHED
\* while the task_done of its job does not count it.
C20_FinishedTaskIsCounted ==
    \A j \in JobIds :
        (\E t \in TaskIds : tasks[t].job_id = j /\ tasks[t].status = FINISHED)
        => jobs[j].task_done =
             Cardinality({t \in TaskIds :
                 tasks[t].job_id = j /\ tasks[t].status = FINISHED})

\* C21: a pulse tick writes only the pulse column of the worker's node row:
\* the step of heartbeat leaves every other column of the row, and every
\* other row, as stored.
C21_PulseWritesOnlyPulse ==
    [][\A n \in Hosts :
          heartbeat(n)
          => /\ jobs' = jobs
             /\ tasks' = tasks
             /\ \A h \in Hosts \ {n} : render_nodes'[h] = render_nodes[h]
             /\ \A c \in DOMAIN render_nodes[n] \ {"pulse"} :
                   render_nodes'[n][c] = render_nodes[n][c]]_vars

\* C22: for a job on which pause() is applicable, pause() followed by
\* start() leaves the job and each of its tasks with the status it had
\* before the pause.
C22_PauseStartRestores ==
    [][\A j \in JobIds :
          pause_start(j)
          => /\ jobs'[j].status = jobs[j].status
             /\ \A t \in TaskIds :
                   tasks[t].job_id = j => tasks'[t].status = tasks[t].status]_vars

\* C23: update() on a handle writes exactly the columns of its dirty set and
\* leaves the dirty set empty, so that a second update() with no write to
\* the handle in between issues no UPDATE and changes nothing; checked on
\* the task.update() of the completion path.
C23_UpdateFlushesDirty ==
    [][\A n \in Hosts :
          task_update(n)
          => LET h == completed_task(n)
                 id == h.v.id
             IN  /\ update_issues(h)
                 /\ \A c \in DOMAIN tasks[id] :
                       tasks'[id][c] = IF c \in h.d THEN h.v[c]
                                                   ELSE tasks[id][c]
                 /\ \A t \in TaskIds \ {id} : tasks'[t] = tasks[t]
                 /\ task_h'[n].d = {}
                 /\ ~update_issues(task_h'[n])
                 /\ update_task(task_h'[n], Tables') = Tables']_vars

\* C23, its case: a worker has written the end of its task with update()
\* from a handle that had some columns dirty and others clean, after a
\* sibling worker had changed a clean column of the row.
C23_Witness ==
    \E n \in Hosts :
        /\ pc[n] = "job_read"
        /\ task_h[n].d = {}
        /\ tasks[task_h[n].v.id].status = task_h[n].v.status
        /\ tasks[task_h[n].v.id].host # task_h[n].v.host

\* C24: from_bytes(as_json_bytes(x)) has the field values of x for the
\* request x that task.kill builds, whose single argument is the new status
\* of the task; checked on every call of kill that asks the worker of a
\* host that accepts connections.
C24_KillRequestRoundTrip ==
    [][\A t \in TaskIds :
       \A new_status \in {HydraStatus(KILLED), [enum |-> FALSE, value |-> KILLED]} :
       \A net \in Nets :
          /\ asks(t, TRUE)
          /\ net[tasks[t].host] = "up"
          /\ kill(t, new_status, TRUE, net)
          => LET x == kill_request(new_status)
             IN  /\ ~as_json_bytes(x).raised
                 /\ from_bytes(as_json_bytes(x).json) = x]_vars

\* C25: send_request never raises to its caller: in every call of kill that
\* asks a worker, the exchange returns a response, and when it failed the
\* response has err = true and a msg that is one of TimeoutError, EOF Error,
\* Socket Error, Unhandled Exception.
C25_SendRequestNeverRaises ==
    [][\A t \in TaskIds :
       \A new_status \in {HydraStatus(KILLED), [enum |-> FALSE, value |-> KILLED]} :
       \A net \in Nets :
          asks(t, TRUE) /\ kill(t, new_status, TRUE, net)
          => /\ ~send_request_raises(net[tasks[t].host])
             /\ net[tasks[t].host] # "up" \/ json_dumps_raises(new_status)
                => LET response == send_request(net[tasks[t].host], new_status)
                   IN  /\ response.err
                       /\ response.msg \in {"TimeoutError", "EOF Error",
                               "Socket Error", "Unhandled Exception"}]_vars

\* C26: for every request line the TCP server of a worker reads, it writes
\* exactly one response; a request whose cmd is not recognized gets
\* err = true and a msg, and an echo request gets its first argument back
\* with err = false.
C26_OneResponsePerRequest ==
    [][\A n \in Hosts : \A line \in Lines :
          serve_forever(n, line)
          => /\ Len(connection'[n].wfile) = 1
             /\ line.cmd \notin {"echo", "kill_current_task", "shutdown"}
                => /\ connection'[n].wfile[1].err
                   /\ connection'[n].wfile[1].msg # ""
             /\ line.cmd = "echo"
                => /\ ~connection'[n].wfile[1].err
                   /\ connection'[n].wfile[1].msg = line.args[1].value]_vars

\* C27: the threads the manager tracks grow by exactly one for each thread
\* added (three when a worker starts: its server thread by add_thread, its
\* two loops by create_idle_loop), and after HydraThreadManager.shutdown()
\* the manager tracks no thread.
C27_ManagerTracksThreads ==
    [][\A n \in Hosts :
          /\ unstick_task(n)
             => Cardinality(DOMAIN all_threads'[n]) =
                   Cardinality(DOMAIN all_threads[n]) + 3
          /\ log_open_error(n) => DOMAIN all_threads'[n] = {}]_vars

\* C29: a failure raised by one iteration of the render loop of a worker (a
\* database error in the claim or in the completion path) does not end the
\* loop: its thread is still running afterwards.
C29_LoopSurvivesFailure ==
    [][\A n \in Hosts :
          run_raises(n) => ~all_threads'[n]["Render Loop"].stopped]_vars

\* C28: for a given name at most one InstanceLock is locked at any time (on
\* each host, whose lock file is its own).
C28_AtMostOneLocked ==
    \A n \in Hosts :
        Cardinality({l \in DOMAIN locks[n].made : locks[n].made[l].locked}) <= 1

\* C30: after unstick_task at worker start-up the node's row is not STARTED
\* or PENDING (STARTED became IDLE, PENDING became OFFLINE, any other status
\* is unchanged), its task_id is null, and the task it referenced, if any,
\* is READY with exit_code 999 and end_time set.
C30_Unstuck ==
    [][\A n \in Hosts :
          unstick_task(n)
          => LET status == render_nodes[n].status
                 tid == render_nodes[n].task_id
             IN  /\ render_nodes'[n].status \notin STUCK_STATUS
                 /\ render_nodes'[n].status =
                       IF status = STARTED THEN IDLE
                       ELSE IF status = PENDING THEN OFFLINE ELSE status
                 /\ render_nodes'[n].task_id = 0
                 /\ tid # 0
                    => /\ tasks'[tid].status = READY
                       /\ tasks'[tid].exit_code = {ExitUnstuck}
                       /\ tasks'[tid].end_time]_vars

\* C31: every handle returned by fetch has an empty dirty set: the node
\* handle the render loop fetches on a tick and the job handle get_job
\* fetches are clean, so that an update() after one assignment writes only
\* the column assigned.
C31_FetchedHandleIsClean ==
    [][\A n \in Hosts :
          /\ render_loop(n) => this_node'[n].d = {}
          /\ get_job(n) => job_h'[n].d = {}]_vars

\* C32: after refresh() every column populated on the handle holds the value
\* stored in the database for the row: the refresh that opens the
\* transaction of update_job_status gives the job handle the stored values,
\* among them attempts and failed_nodes as other workers have written them.
C32_RefreshReadsTheRow ==
    \A n \in Hosts :
        pc[n] = "job_write"
        => LET row == jobs[job_h[n].v.id]
               h == refresh(job_h[n], row, "id")
           IN  \A c \in DOMAIN h.v : h.v[c] = row[c]

\* C33: when job.kill(KILLED, tcp) returns, the job's stored status is
\* KILLED, every task of the job that was not FINISHED is stored KILLED, and
\* every task that was FINISHED still is, one that finished after the
\* call's read of the task list included.
C33_JobKillKeepsFinished ==
    [][\A j \in JobIds :
          job_kill_updates(j)
          => /\ jobs'[j].status = KILLED
             /\ \A t \in get_tasks(j, Tables) :
                   tasks'[t].status =
                      IF tasks[t].status = FINISHED THEN FINISHED
                      ELSE KILLED]_vars

C35_KillReturnCode ==
    [][\A n \in Hosts :
          kill_current_task(n)
          => /\ child_killed'[n] \in {1, -1, -9, -10}
             /\ child_process[n] # "running" => child_killed'[n] = 1
             /\ child_process[n] = "running"
                => IF child_process'[n] = "exited"
                   THEN child_killed'[n] \in {1, -9}
                   ELSE child_killed'[n] \in {-1, -10}]_vars

\* C36: a HydraThread whose terminate() is called reaches stopped once its
\* current target call has returned, and invokes its target no more after it
\* has observed the stop event; a thread terminated before its start delay
\* elapsed never invokes its target; a single-shot thread invokes its target
\* exactly once; and run_forever returns once every tracked thread is
\* stopped.
C36_CooperativeShutdown ==
    /\ \A th \in ThreadNames :
          (/\ th \in DOMAIN manager.all_threads
           /\ manager.all_threads[th].stop_event
           /\ manager.all_threads[th].at # "target")
          ~> (/\ th \in DOMAIN manager.all_threads
              /\ manager.all_threads[th].stopped)
    /\ [][\A th \in DOMAIN manager.all_threads :
             /\ manager.all_threads[th].stop_event
             /\ manager.all_threads[th].at \in {"while", "finally", "ended"}
             => manager'.all_threads[th].calls =
                   manager.all_threads[th].calls]_vars
    /\ [](\A th \in DOMAIN manager.all_threads :
            LET t == manager.all_threads[th]
            IN  /\ t.early => t.calls = 0
                /\ t.single_shot => t.calls <= 1
                /\ t.single_shot /\ t.stopped => t.calls = 1)
    /\ [](manager.returned
           => \A th \in DOMAIN manager.all_threads :
                 manager.all_threads[th].stopped)
    /\ (\A th \in ThreadNames :
            /\ th \in DOMAIN manager.all_threads
            /\ manager.all_threads[th].stopped)
       ~> manager.returned

\* C36 amended: as C36, but a single-shot thread invokes its target at most
\* once, and exactly once by the time it is stopped unless terminate() was
\* called on it.
C36_CooperativeShutdownAmended ==
    /\ \A th \in ThreadNames :
          (/\ th \in DOMAIN manager.all_threads
           /\ manager.all_threads[th].stop_event
           /\ manager.all_threads[th].at # "target")
          ~> (/\ th \in DOMAIN manager.all_threads
              /\ manager.all_threads[th].stopped)
    /\ [][\A th \in DOMAIN manager.all_threads :
             /\ manager.all_threads[th].stop_event
             /\ manager.all_threads[th].at \in {"while", "finally", "ended"}
             => manager'.all_threads[th].calls =
                   manager.all_threads[th].calls]_vars
    /\ [](\A th \in DOMAIN manager.all_threads :
            LET t == manager.all_threads[th]
            IN  /\ t.early => t.calls = 0
                /\ t.single_shot => t.calls <= 1
                /\ t.single_shot /\ t.stopped /\ ~t.terminated
                   => t.calls = 1)
    /\ [](manager.returned
           => \A th \in DOMAIN manager.all_threads :
                 manager.all_threads[th].stopped)
    /\ (\A th \in ThreadNames :
            /\ th \in DOMAIN manager.all_threads
            /\ manager.all_threads[th].stopped)
       ~> manager.returned

\* C36, its case: run_forever has returned with a single-shot thread that
\* ran once and a thread terminated during its start delay.
C36_Witness ==
    /\ manager.returned
    /\ \E th \in DOMAIN manager.all_threads :
          LET t == manager.all_threads[th]
          IN  t.single_shot /\ ~t.terminated /\ t.stopped /\ t.calls = 1
    /\ \E th \in DOMAIN manager.all_threads :
          LET t == manager.all_threads[th]
          IN  t.early /\ t.stopped /\ ~t.single_shot

\* C37: update() clears a handle's dirty set only when its UPDATE is
\* committed: when the transaction of a claim is rolled back, every column
\* of the task handle whose value the database does not hold is still in
\* the handle's dirty set.
C37_RolledBackStaysDirty ==
    [][\A n \in Hosts :
          find_render_task_raises(n)
          => LET h == task_h'[n]
             IN  \A c \in DOMAIN h.v :
                    h.v[c] # tasks'[h.v.id][c] => c \in h.d]_vars

\* C38: a kill is durable.  After job.kill(KILLED) has returned, and with no
\* start, pause or reset applied since, no step of a worker commits a claim
\* of a task of the job, takes the job out of KILLED, or changes the status
\* of a task of the job that is not FINISHED (each of them is KILLED).
C38_KillIsDurable ==
    [][\A j \in JobIds :
          /\ count.calls > 0
          /\ kill_tasks[j] = <<>>
          /\ jobs[j].status = KILLED
          => /\ jobs'[j].status = KILLED
             /\ \A t \in get_tasks(j, Tables) :
                   tasks[t].status # FINISHED
                   => /\ tasks[t].status = KILLED
                      /\ tasks'[t].status = KILLED
             /\ \A n \in Hosts :
                   ~(find_render_task(n) /\ task_h[n].v.job_id = j)]_vars

\* C39: in every reachable state, for every host at most one task is STARTED
\* with that host in its host column.
C39_OneStartedTaskPerHost ==
    \A h \in Hosts :
        Cardinality({t \in TaskIds :
            tasks[t].status = STARTED /\ tasks[t].host = h}) <= 1

\* C40: FINISHED is stable: with no reset applied, no step (a worker's
\* claim, completion or crash recovery) changes the stored status of a task
\* that is FINISHED.
C40_FinishedIsStable ==
    [][\A t \in TaskIds :
          tasks[t].status = FINISHED => tasks'[t].status = FINISHED]_vars

====
